---- MODULE Spec2Model ----
(***************************************************************************)
(* A model of the a-rs-jsonrpc protocol and dispatch core: the identifier  *)
(* generator (src/src/id.rs), the error taxonomy and its wire mapping      *)
(* (src/src/error.rs), the lazily built route table, init() and dispatch() *)
(* (src/src/service.rs), the handlers generated by the service macros      *)
(* (src/proc-macros/src/lib.rs) and the transport closure of the example   *)
(* servers with its response_error (src/examples/*.rs).                    *)
(***************************************************************************)
EXTENDS Integers, Sequences, FiniteSets, TLC

VARIABLES
    tasks,      \* the ids of the concurrently running server tasks
    inputs,     \* the workload: "race" (a few requests), "serve" (all of them)
                \* or "call" (the requests a client posts)
    example,    \* which example server's transport closure is running
    services,   \* RPC_SERVICES: the registration entries, in link order
    route,      \* ROUTE_TABLE: the LazyLock and, once built, the HashMap
    builds,     \* how many times the LazyLock closure has been started
    pc,         \* per task: where it is in init() / dispatch()
    op,         \* per task: the call in progress ("init" | "dispatch" | "none")
    body,       \* per task: the request bytes handed to dispatch()
    calls,      \* per task: the handler invocations made, <<handler, bytes>>
    hout,       \* per task: what the invoked handler's future resolved to
    ret,        \* per task: what init() / dispatch() returned
    resp,       \* per task: the payload the transport closure sends back
    counter,    \* ATOMIC_U64_ID
    issued,     \* the identifiers handed out so far, in fetch_add order
    client,     \* the client call in progress: the value it is made on, the function
    cpc,        \* where the client call is
    outgoing,   \* the JsonRpcRequest the call is building (the body of client.rs)
    pending,    \* the items of the value the call has still to add as parameters
    posted,     \* the request as it is posted
    answer,     \* what the send function returned to its caller
    value,      \* codec: the value or text given to a conversion
    serialized, \* codec: what serializing the value gave
    parsed      \* codec: what parsing gave

vars == <<tasks, inputs, example, services, route, builds, pc, op, body,
          calls, hout, ret, resp, counter, issued, client, cpc, outgoing, pending,
          posted, answer, value, serialized, parsed>>

regVars == <<tasks, inputs, example, services, route, builds, pc, op, body,
             calls, hout, ret, resp>>

idVars == <<counter, issued>>

clientVars == <<client, cpc, outgoing, pending, posted, answer>>

codecVars == <<value, serialized, parsed>>

(***************************************************************************)
(* Bounds of the model.                                                    *)
(***************************************************************************)
NumTasks == 2
MaxEntries == 2
MaxIdCalls == 7

(***************************************************************************)
(* JSON values, as far as the envelope fields need them.  JAbsent stands   *)
(* for a key that is not in the object.                                    *)
(***************************************************************************)
JAbsent == [t |-> "absent"]
JNull == [t |-> "null"]
JNum(n) == [t |-> "num", v |-> n]
JStr(s) == [t |-> "str", v |-> s]
JArr(elems) == [t |-> "arr", v |-> elems]

\* A JSON string that is written with an escape sequence (a \u-escaped
\* letter, an escaped quote or backslash); s is the string it decodes to.
JStrEscaped(s) == [t |-> "str", v |-> s, escaped |-> TRUE]

IsEscaped(j) == "escaped" \in DOMAIN j
JObj(members) == [t |-> "obj", v |-> members]

(***************************************************************************)
(* Request bodies.  kind is "garbage" for bytes that are not JSON,         *)
(* "scalar" for a JSON document that is not an object and "object" for a   *)
(* JSON object, whose four envelope keys are given (JAbsent when missing). *)
(***************************************************************************)
Garbage ==
    [kind |-> "garbage", method |-> JAbsent, jsonrpc |-> JAbsent,
     params |-> JAbsent, id |-> JAbsent]

Scalar ==
    [kind |-> "scalar", method |-> JAbsent, jsonrpc |-> JAbsent,
     params |-> JAbsent, id |-> JAbsent]

Object(m, v, p, i) ==
    [kind |-> "object", method |-> m, jsonrpc |-> v, params |-> p, id |-> i]

MethodValues ==
    {JAbsent, JNum(7), JStr("echoArray"), JStr("ping"), JStr("nope"), JStrEscaped("ping")}

VersionValues == {JAbsent, JNum(2), JStr("1.0"), JStr("2.0"), JStr("9.9")}

ParamValues ==
    {JAbsent, JNull, JArr(<<>>), JArr(<<JStr("hi")>>), JArr(<<JNum(1), JNum(2)>>),
     JObj({}), JObj({<<"msg", JStr("hi")>>})}

IdValues == {JAbsent, JNull, JNum(1), JNum(-1), JStr("x")}

Bodies ==
    {Garbage, Scalar} \cup
    {Object(m, v, p, i) : m \in MethodValues, v \in VersionValues,
                          p \in ParamValues, i \in IdValues}

\* The bodies the racing tasks of the registry specification send.
RaceBodies ==
    {Garbage,
     Object(JStr("echoArray"), JStr("2.0"), JArr(<<JStr("hi")>>), JNum(1)),
     Object(JStr("echoArray"), JStr("1.0"), JObj({<<"msg", JStr("hi")>>}), JNum(1)),
     Object(JStr("ping"), JStr("2.0"), JAbsent, JNum(1)),
     Object(JStr("nope"), JStr("2.0"), JAbsent, JNum(1))}

(***************************************************************************)
(* Result<T, RpcError>.                                                    *)
(***************************************************************************)
Ok(x) == [ok |-> TRUE, val |-> x]
Err(e) == [ok |-> FALSE, err |-> e]

\* Option<T>.
None == [some |-> FALSE]
Some(x) == [some |-> TRUE, val |-> x]

RpcError(kind, text) == [kind |-> kind, text |-> text]

ErrorKinds ==
    {"IoError", "ReqwestError", "SerdeError", "InvalidJsonRpcVersion",
     "MethodNotFound", "CustomError", "InvalidParams"}

MethodNotFound == RpcError("MethodNotFound", "")
SerdeError(text) == RpcError("SerdeError", text)

(***************************************************************************)
(* error.rs: the Display text of an RpcError (the thiserror attributes)    *)
(* and its conversion into the wire error object.                          *)
(***************************************************************************)
Display(err) ==
    CASE err.kind = "IoError" -> "io error: " \o err.text
      [] err.kind = "ReqwestError" -> "reqwest error: " \o err.text
      [] err.kind = "SerdeError" -> "serialize/deserialize error: " \o err.text
      [] err.kind = "InvalidJsonRpcVersion" -> "invalid json rpc version: " \o err.text
      [] err.kind = "MethodNotFound" -> "json rpc method not found"
      [] err.kind = "CustomError" -> "custom error: " \o err.text
      [] err.kind = "InvalidParams" -> "invalid parameters: " \o err.text

JsonRpcError(code, message) == [code |-> code, message |-> message, data |-> None]

FromRpcErrorSwapped(err) ==
    CASE err.kind = "IoError" -> JsonRpcError(-32000, err.text)
      [] err.kind = "ReqwestError" -> JsonRpcError(-32001, err.text)
      [] err.kind = "SerdeError" -> JsonRpcError(-32003, err.text)
      [] err.kind = "InvalidJsonRpcVersion" ->
            JsonRpcError(-32600, "Invalid JSON-RPC version: " \o err.text)
      [] err.kind = "MethodNotFound" -> JsonRpcError(-32601, "method not found")
      [] err.kind = "CustomError" -> JsonRpcError(-32002, err.text)
      [] err.kind = "InvalidParams" ->
            JsonRpcError(-32602, "Invalid parameters: " \o err.text)

FromRpcError(err) ==
    CASE err.kind = "IoError" -> JsonRpcError(-32000, err.text)
      [] err.kind = "ReqwestError" -> JsonRpcError(-32001, err.text)
      [] err.kind = "SerdeError" -> JsonRpcError(-32002, err.text)
      [] err.kind = "InvalidJsonRpcVersion" ->
            JsonRpcError(-32600, "Invalid JSON-RPC version: " \o err.text)
      [] err.kind = "MethodNotFound" -> JsonRpcError(-32601, "method not found")
      [] err.kind = "CustomError" -> JsonRpcError(-32003, err.text)
      [] err.kind = "InvalidParams" ->
            JsonRpcError(-32602, "Invalid parameters: " \o err.text)

\* Serialize for JsonRpcError: data is skipped when it is None.
SerializeError(e) ==
    [t |-> "error", code |-> e.code, message |-> e.message,
     data |-> IF e.data.some THEN e.data.val ELSE JAbsent]

(***************************************************************************)
(* id.rs: the untagged Id enum on the wire.                                *)
(***************************************************************************)
Number(n) == [variant |-> "Number", n |-> n]
String(s) == [variant |-> "String", s |-> s]

DeserializeIdSigned(j) ==
    IF j.t = "num" THEN Ok(Number(j.v))
    ELSE IF j.t = "str" THEN Ok(String(j.v))
    ELSE Err(SerdeError("data did not match any variant of untagged enum Id"))

\* Deserialize for Id: a u64 is tried first, then a string.
DeserializeId(j) ==
    IF j.t = "num" /\ j.v >= 0 THEN Ok(Number(j.v))
    ELSE IF j.t = "str" THEN Ok(String(j.v))
    ELSE Err(SerdeError("data did not match any variant of untagged enum Id"))

SerializeId(id) ==
    IF id.variant = "Number" THEN JNum(id.n) ELSE JStr(id.s)

(***************************************************************************)
(* request.rs: JsonRpcVersion.                                             *)
(***************************************************************************)
VersionFromStrAliases(s) ==
    IF s \in {"1.0", "1"} THEN Ok("V1_0")
    ELSE IF s \in {"2.0", "2"} THEN Ok("V2_0")
    ELSE Err(RpcError("InvalidJsonRpcVersion", s))

\* impl FromStr for JsonRpcVersion
VersionFromStr(s) ==
    IF s = "1.0" THEN Ok("V1_0")
    ELSE IF s = "2.0" THEN Ok("V2_0")
    ELSE Err(RpcError("InvalidJsonRpcVersion", s))

SerializeVersion(v) ==
    IF v = "V1_0" THEN JStr("1.0") ELSE JStr("2.0")

(***************************************************************************)
(* response.rs: JsonRpcResponse and its serialized form.  Both Option      *)
(* fields are skipped when None.                                           *)
(***************************************************************************)
JsonRpcResponse(jsonrpc, result, error, id) ==
    [jsonrpc |-> jsonrpc, result |-> result, error |-> error, id |-> id]

SerializeResponseNoSkip(r) ==
    [jsonrpc |-> SerializeVersion(r.jsonrpc),
     result |-> IF r.result.some THEN r.result.val ELSE JNull,
     error |-> IF r.error.some THEN SerializeError(r.error.val) ELSE JNull,
     id |-> SerializeId(r.id)]

SerializeResponse(r) ==
    [jsonrpc |-> SerializeVersion(r.jsonrpc),
     result |-> IF r.result.some THEN r.result.val ELSE JAbsent,
     error |-> IF r.error.some THEN SerializeError(r.error.val) ELSE JAbsent,
     id |-> SerializeId(r.id)]

(***************************************************************************)
(* The functions annotated with a service macro.  RpcAttr::parse has       *)
(* already turned the version attribute into "1.0" or "2.0"; params are    *)
(* the declared parameters, a type each (named, in obj mode).              *)
(***************************************************************************)
\* examples/echo.rs: echo_array.
EchoArray ==
    [fn |-> "echo_array", method |-> "echoArray", version |-> "2.0", mode |-> "array",
     params |-> <<[name |-> "msg", type |-> "str"]>>]

\* A function that an application annotates, in obj mode and for protocol
\* 1.0, with the method name echo_array already has.
EchoLegacy ==
    [fn |-> "echo_legacy", method |-> "echoArray", version |-> "1.0", mode |-> "obj",
     params |-> <<[name |-> "msg", type |-> "str"]>>]

\* examples/unit.rs: ping.
Ping ==
    [fn |-> "ping", method |-> "ping", version |-> "2.0", mode |-> "array",
     params |-> <<>>]

\* examples/unit.rs: todo_list, in obj mode and without parameters.
TodoList ==
    [fn |-> "todo_list", method |-> "todoList", version |-> "2.0", mode |-> "obj",
     params |-> <<>>]

\* examples/arith.rs: add_array.
AddArray ==
    [fn |-> "add_array", method |-> "addArray", version |-> "1.0", mode |-> "array",
     params |-> <<[name |-> "a", type |-> "num"], [name |-> "b", type |-> "num"]>>]

ServiceFns == {EchoArray, EchoLegacy, Ping}

\* The registration entry a macro emits for its function.
RpcServiceEntry(f) == [method |-> f.method, handler |-> f]

\* What linkme may collect: any of the annotated functions, in any order.
ServiceLists ==
    {s \in UNION {[1..n -> {RpcServiceEntry(f) : f \in ServiceFns}] : n \in 0..MaxEntries} :
        \A i, j \in DOMAIN s : i # j => s[i] # s[j]}

(***************************************************************************)
(* service.rs: the closure of ROUTE_TABLE.  The HashMap is a function from *)
(* the method names inserted so far to their handlers.                     *)
(***************************************************************************)
EmptyMap == [k \in {} |-> k]

\* HashMap::insert: the new map and the value the key had before.
Insert(m, k, v) ==
    [map |-> [x \in DOMAIN m \cup {k} |-> IF x = k THEN v ELSE m[x]],
     old |-> IF k \in DOMAIN m THEN Some(m[k]) ELSE None]

NeverDuplicate(old) == FALSE

\* `if m.insert(..).is_some() { panic!(..) }`
IsDuplicate(old) == old.some

RECURSIVE BuildFrom(_, _, _)
BuildFrom(entries, i, m) ==
    IF i > Len(entries) THEN [panic |-> FALSE, map |-> m]
    ELSE LET ins == Insert(m, entries[i].method, entries[i].handler)
         IN  IF IsDuplicate(ins.old)
             THEN [panic |-> TRUE, map |-> EmptyMap]
             ELSE BuildFrom(entries, i + 1, ins.map)

RECURSIVE KeepFirst(_, _, _)
KeepFirst(entries, i, m) ==
    IF i > Len(entries) THEN [panic |-> FALSE, map |-> m]
    ELSE IF entries[i].method \in DOMAIN m THEN KeepFirst(entries, i + 1, m)
    ELSE KeepFirst(entries, i + 1, Insert(m, entries[i].method, entries[i].handler).map)

BuildTableKeepFirst(entries) == KeepFirst(entries, 1, EmptyMap)

BuildTable(entries) == BuildFrom(entries, 1, EmptyMap)

(***************************************************************************)
(* service.rs: MethodEnvelope, the peek at the method field.  The field is  *)
(* a &str borrowed from the body: serde_json can lend a string that is     *)
(* written without escapes, and has to copy one that is written with them, *)
(* which the Deserialize of &str does not take.                            *)
(***************************************************************************)
MethodEnvelope(b) ==
    IF b.kind = "garbage" THEN Err(SerdeError("expected value"))
    ELSE IF b.kind # "object" THEN Err(SerdeError("invalid type"))
    ELSE IF b.method.t = "absent" THEN Err(SerdeError("missing field method"))
    ELSE IF b.method.t # "str" THEN Err(SerdeError("invalid type"))
    ELSE IF IsEscaped(b.method)
    THEN Err(SerdeError("invalid type: string, expected a borrowed string"))
    ELSE Ok(b.method.v)

(***************************************************************************)
(* proc-macros: the request struct a service macro generates and its       *)
(* derived Deserialize.                                                    *)
(***************************************************************************)
HasType(j, type) == j.t = type

Member(members, key) ==
    IF \E kv \in members : kv[1] = key
    THEN (CHOOSE kv \in members : kv[1] = key)[2]
    ELSE JAbsent

DecodeParamsMapOnly(f, p) ==
    LET n == Len(f.params)
    IN  IF p.t \in {"absent", "null"} THEN Ok(None)
        ELSE IF f.mode = "array" /\ n = 0 THEN Ok(Some(<<>>))
        ELSE IF f.mode = "array" /\ p.t = "arr" /\ Len(p.v) = n
                /\ \A k \in 1..n : HasType(p.v[k], f.params[k].type)
             THEN Ok(Some(p.v))
        ELSE IF f.mode = "obj" /\ p.t = "obj"
                /\ \A k \in 1..n : HasType(Member(p.v, f.params[k].name), f.params[k].type)
             THEN Ok(Some([k \in 1..n |-> Member(p.v, f.params[k].name)]))
        ELSE Err(SerdeError("invalid params"))

\* The params field: Option<tuple>, Option<serde_json::Value> for an array
\* handler without parameters, Option<params struct> in obj mode; it has
\* #[serde(default)].
DecodeParams(f, p) ==
    LET n == Len(f.params)
        positional ==
            /\ p.t = "arr"
            /\ Len(p.v) = n
            /\ \A k \in 1..n : HasType(p.v[k], f.params[k].type)
        named ==
            /\ p.t = "obj"
            /\ \A k \in 1..n : HasType(Member(p.v, f.params[k].name), f.params[k].type)
    IN  IF p.t \in {"absent", "null"} THEN Ok(None)
        ELSE IF f.mode = "array" /\ n = 0 THEN Ok(Some(<<>>))
        ELSE IF positional THEN Ok(Some(p.v))
        ELSE IF f.mode = "obj" /\ named
             THEN Ok(Some([k \in 1..n |-> Member(p.v, f.params[k].name)]))
        ELSE Err(SerdeError("invalid params"))

DecodeRequest(f, b) ==
    IF b.kind = "garbage" THEN Err(SerdeError("expected value"))
    ELSE IF b.kind # "object" THEN Err(SerdeError("invalid type"))
    ELSE IF b.jsonrpc.t = "absent" THEN Err(SerdeError("missing field jsonrpc"))
    ELSE IF b.jsonrpc.t # "str" THEN Err(SerdeError("invalid type"))
    ELSE IF b.method.t = "absent" THEN Err(SerdeError("missing field method"))
    ELSE IF b.method.t # "str" THEN Err(SerdeError("invalid type"))
    ELSE IF ~DecodeParams(f, b.params).ok THEN DecodeParams(f, b.params)
    ELSE IF b.id.t = "absent" THEN Err(SerdeError("missing field id"))
    ELSE IF ~DeserializeId(b.id).ok THEN DeserializeId(b.id)
    ELSE Ok([jsonrpc |-> b.jsonrpc.v, method |-> b.method.v,
             params |-> DecodeParams(f, b.params).val,
             id |-> DeserializeId(b.id).val])

(***************************************************************************)
(* proc-macros: the generated JsonRpcServiceFn::handle.  outcome is what   *)
(* the annotated function returns if it is called; invoked tells whether   *)
(* it was.                                                                 *)
(***************************************************************************)
Returned(result, invoked) == [result |-> result, invoked |-> invoked]

VersionMismatchIgnored(f, request) == FALSE

\* `if request.jsonrpc != #version_val`
VersionMismatch(f, request) == request.jsonrpc # f.version

ParamsRequiredArrayOnly(f) == Len(f.params) > 0 /\ f.mode = "array"

\* has_params: the call logic unwraps request.params first.
ParamsRequired(f) == Len(f.params) > 0

RequiresText(f) ==
    IF f.mode = "array"
    THEN "Method '" \o f.method \o "' requires array parameters"
    ELSE "Method '" \o f.method \o "' requires parameters"

BuildResponseZeroId(version, result, id) ==
    JsonRpcResponse(version, Some(result), None, Number(0))

BuildResponse(version, result, id) ==
    JsonRpcResponse(version, Some(result), None, id)

handle(f, b, outcome) ==
    LET decoded == DecodeRequest(f, b)
        request == decoded.val
    IN  IF ~decoded.ok THEN Returned(decoded, FALSE)
        ELSE IF VersionMismatch(f, request)
        THEN Returned(Err(RpcError("InvalidJsonRpcVersion",
                 "Expected JSON-RPC version " \o f.version \o ", got " \o request.jsonrpc)),
                 FALSE)
        ELSE IF ParamsRequired(f) /\ ~request.params.some
        THEN Returned(Err(RpcError("InvalidParams", RequiresText(f))), FALSE)
        ELSE IF ~outcome.ok THEN Returned(outcome, TRUE)
        ELSE IF ~VersionFromStr(request.jsonrpc).ok
        THEN Returned(VersionFromStr(request.jsonrpc), TRUE)
        ELSE Returned(Ok(BuildResponse(VersionFromStr(request.jsonrpc).val,
                                       outcome.val, request.id)), TRUE)

\* The handler of the registration entry: handle, then serde_json::to_string.
Handler(f, b, outcome) ==
    LET h == handle(f, b, outcome)
    IN  IF h.result.ok
        THEN Returned(Ok(SerializeResponse(h.result.val)), h.invoked)
        ELSE h

\* What an annotated function may return.
Outcomes ==
    {Ok(JStr("hi")), Ok(JNum(3)), Ok(JNull)} \cup
    {Err(RpcError(k, IF k = "MethodNotFound" THEN "" ELSE "oops")) : k \in ErrorKinds}

RaceOutcomes == {Ok(JStr("hi")), Err(RpcError("CustomError", "oops"))}

\* The requests and the function results of a workload.
BodiesOf(load) ==
    IF load = "race" THEN RaceBodies
    ELSE IF load = "serve" THEN Bodies
    ELSE IF cpc = "posted" THEN {posted} ELSE {}

OutcomesOf(load) == IF load = "serve" THEN Outcomes ELSE RaceOutcomes

(***************************************************************************)
(* examples: response_error and the closure given to axum.                 *)
(***************************************************************************)
Examples == {"echo", "arith", "unit"}

ErrorResponse(version, error, id) ==
    [jsonrpc |-> version, result |-> JAbsent, error |-> error, id |-> id]

\* v.get(key).cloned().unwrap_or(Value::Null)
GetOrNull(b, field) ==
    IF b.kind = "object" /\ field.t # "absent" THEN field ELSE JNull

InternalError(err) ==
    [t |-> "error", code |-> -32603, message |-> Display(err), data |-> JAbsent]

response_error(ex, b, err) ==
    IF b.kind = "garbage"
    THEN ErrorResponse(JNull, InternalError(err), JNull)
    ELSE IF ex = "echo"
    THEN ErrorResponse(GetOrNull(b, b.jsonrpc), SerializeError(FromRpcError(err)),
                       GetOrNull(b, b.id))
    ELSE ErrorResponse(GetOrNull(b, b.jsonrpc), InternalError(err), GetOrNull(b, b.id))

\* match dispatch(&body).await { Ok(resp_body) => resp_body, Err(err) => response_error(..) }
Reply(ex, b, r) ==
    IF r.ok THEN r.val ELSE response_error(ex, b, r.err)

(***************************************************************************)
(* The state machine of the registry: tasks calling init() and dispatch(). *)
(***************************************************************************)
Nothing == [t |-> "nothing"]
Unit == [t |-> "unit"]
NoBody == [kind |-> "none", method |-> JAbsent, jsonrpc |-> JAbsent,
           params |-> JAbsent, id |-> JAbsent]

Unbuilt == [state |-> "Unbuilt", map |-> EmptyMap]

InitRegistry(ts, load, programs, lists) ==
    /\ tasks = ts
    /\ inputs = load
    /\ example \in programs
    /\ services \in lists
    /\ route = Unbuilt
    /\ builds = 0
    /\ pc = [t \in ts |-> "idle"]
    /\ op = [t \in ts |-> "none"]
    /\ body = [t \in ts |-> NoBody]
    /\ calls = [t \in ts |-> <<>>]
    /\ hout = [t \in ts |-> Nothing]
    /\ ret = [t \in ts |-> Nothing]
    /\ resp = [t \in ts |-> Nothing]

InitIds ==
    /\ counter = 1
    /\ issued = <<>>

\* No client call is made.
NoClient ==
    /\ client = Nothing
    /\ cpc = "off"
    /\ outgoing = Nothing
    /\ pending = <<>>
    /\ posted = Nothing
    /\ answer = Nothing

\* No conversion is exercised on its own.
NoCodec ==
    /\ value = Nothing
    /\ serialized = Nothing
    /\ parsed = Nothing

\* Racing tasks, a few requests.
Init ==
    /\ InitRegistry(1..NumTasks, "race", Examples, ServiceLists)
    /\ InitIds
    /\ NoClient
    /\ NoCodec

\* Only the identifier generator runs.
InitId ==
    /\ InitRegistry({}, "race", {"echo"}, {<<>>})
    /\ InitIds
    /\ NoClient
    /\ NoCodec

\* One task at a time, every request of the model.
InitServe ==
    /\ InitRegistry({1}, "serve", Examples, ServiceLists)
    /\ InitIds
    /\ NoClient
    /\ NoCodec

fixed == <<tasks, inputs, example, services>>

MayStartBuildRacy(r) == r.state \in {"Unbuilt", "Building"}

\* LazyLock::force, Once state INCOMPLETE: this caller runs the closure.
MayStartBuild(r) == r.state = "Unbuilt"

IsReadyAndUnused(r) == r.state = "Ready" /\ \A u \in tasks : pc[u] # "await"

\* A built LazyLock is read through a shared reference: no lock is taken,
\* whoever else reads the table or is running a handler found in it.
IsReady(r) == r.state = "Ready"

GetOrFirst(map, method) ==
    IF method \in DOMAIN map THEN Some(map[method])
    ELSE IF DOMAIN map # {} THEN Some(map[CHOOSE k \in DOMAIN map : TRUE])
    ELSE None

\* HashMap::get
Get(map, method) ==
    IF method \in DOMAIN map THEN Some(map[method]) ELSE None

PassedBytesHeadOnly(b) == [b EXCEPT !.params = JAbsent]

\* dispatch() hands the handler the body it was given.
PassedBytes(b) == b

PropagateAsNotFound(result) == IF result.ok THEN result ELSE Err(MethodNotFound)

\* dispatch() returns what the handler's future resolved to.
Propagate(result) == result

\* init()
CallInit(t) ==
    /\ pc[t] = "idle"
    /\ pc' = [pc EXCEPT ![t] = "force"]
    /\ op' = [op EXCEPT ![t] = "init"]
    /\ UNCHANGED <<fixed, route, builds, body, calls, hout, ret, resp, idVars, clientVars, codecVars>>

\* dispatch(body) up to the first use of ROUTE_TABLE
CallDispatch(t, b) ==
    /\ pc[t] = "idle"
    /\ op' = [op EXCEPT ![t] = "dispatch"]
    /\ body' = [body EXCEPT ![t] = b]
    /\ LET envelope == MethodEnvelope(b)
       IN  IF envelope.ok
           THEN /\ pc' = [pc EXCEPT ![t] = "force"]
                /\ UNCHANGED <<ret, resp>>
           ELSE /\ pc' = [pc EXCEPT ![t] = "done"]
                /\ ret' = [ret EXCEPT ![t] = envelope]
                /\ resp' = [resp EXCEPT ![t] = Reply(example, b, envelope)]
    /\ UNCHANGED <<fixed, route, builds, calls, hout, idVars, clientVars, codecVars>>

\* The first access starts the LazyLock closure.
ForceBegin(t) ==
    /\ pc[t] = "force"
    /\ MayStartBuild(route)
    /\ route' = [route EXCEPT !.state = "Building"]
    /\ builds' = builds + 1
    /\ pc' = [pc EXCEPT ![t] = "building"]
    /\ UNCHANGED <<fixed, op, body, calls, hout, ret, resp, idVars, clientVars, codecVars>>

\* The closure ends: the table is stored, or the panic poisons the lock and
\* unwinds through the init() or dispatch() that ran it.
ForceEnd(t) ==
    /\ pc[t] = "building"
    /\ LET built == BuildTable(services)
       IN  IF built.panic
           THEN /\ route' = [state |-> "Poisoned", map |-> EmptyMap]
                /\ pc' = [pc EXCEPT ![t] = "panicked"]
           ELSE /\ route' = [state |-> "Ready", map |-> built.map]
                /\ pc' = [pc EXCEPT ![t] = "force"]
    /\ UNCHANGED <<fixed, builds, op, body, calls, hout, ret, resp, idVars, clientVars, codecVars>>

ForcePoisonedRebuilds(t) ==
    /\ pc[t] = "force"
    /\ route.state = "Poisoned"
    /\ route' = Unbuilt
    /\ UNCHANGED <<fixed, builds, pc, op, body, calls, hout, ret, resp, idVars, clientVars, codecVars>>

\* An access to a poisoned LazyLock panics.
ForcePoisoned(t) ==
    /\ pc[t] = "force"
    /\ route.state = "Poisoned"
    /\ pc' = [pc EXCEPT ![t] = "panicked"]
    /\ UNCHANGED <<fixed, route, builds, op, body, calls, hout, ret, resp, idVars, clientVars, codecVars>>

\* init() reads len() and keys() of the built table and returns.
InitReturn(t) ==
    /\ pc[t] = "force"
    /\ op[t] = "init"
    /\ IsReady(route)
    /\ pc' = [pc EXCEPT ![t] = "done"]
    /\ ret' = [ret EXCEPT ![t] = Unit]
    /\ UNCHANGED <<fixed, route, builds, op, body, calls, hout, resp, idVars, clientVars, codecVars>>

\* dispatch(): ROUTE_TABLE.get(method), then the handler call or MethodNotFound.
Lookup(t) ==
    /\ pc[t] = "force"
    /\ op[t] = "dispatch"
    /\ IsReady(route)
    /\ LET found == Get(route.map, MethodEnvelope(body[t]).val)
       IN  IF found.some
           THEN /\ calls' = [calls EXCEPT ![t] = Append(@, <<found.val, PassedBytes(body[t])>>)]
                /\ pc' = [pc EXCEPT ![t] = "await"]
                /\ UNCHANGED <<ret, resp>>
           ELSE /\ pc' = [pc EXCEPT ![t] = "done"]
                /\ ret' = [ret EXCEPT ![t] = Err(MethodNotFound)]
                /\ resp' = [resp EXCEPT ![t] = Reply(example, body[t], Err(MethodNotFound))]
                /\ UNCHANGED calls
    /\ UNCHANGED <<fixed, route, builds, op, body, hout, idVars, clientVars, codecVars>>

\* The handler's future resolves; dispatch() returns and the closure replies.
HandlerReturn(t, outcome) ==
    /\ pc[t] = "await"
    /\ LET call == calls[t][Len(calls[t])]
           h == Handler(call[1], call[2], outcome)
       IN  /\ hout' = [hout EXCEPT ![t] = h]
           /\ ret' = [ret EXCEPT ![t] = Propagate(h.result)]
           /\ resp' = [resp EXCEPT ![t] = Reply(example, body[t], Propagate(h.result))]
    /\ pc' = [pc EXCEPT ![t] = "done"]
    /\ UNCHANGED <<fixed, route, builds, op, body, calls, idVars, clientVars, codecVars>>

\* The task is over (it replied, or its panic was reported); the next request
\* runs as a new task.
Finish(t) ==
    /\ pc[t] \in {"done", "panicked"}
    /\ pc' = [pc EXCEPT ![t] = "idle"]
    /\ op' = [op EXCEPT ![t] = "none"]
    /\ body' = [body EXCEPT ![t] = NoBody]
    /\ calls' = [calls EXCEPT ![t] = <<>>]
    /\ hout' = [hout EXCEPT ![t] = Nothing]
    /\ ret' = [ret EXCEPT ![t] = Nothing]
    /\ resp' = [resp EXCEPT ![t] = Nothing]
    /\ UNCHANGED <<fixed, route, builds, idVars, clientVars, codecVars>>

Next ==
    \/ \E t \in tasks : CallInit(t)
    \/ \E t \in tasks : \E b \in BodiesOf(inputs) : CallDispatch(t, b)
    \/ \E t \in tasks : ForceBegin(t)
    \/ \E t \in tasks : ForceEnd(t)
    \/ \E t \in tasks : ForcePoisoned(t)
    \/ \E t \in tasks : InitReturn(t)
    \/ \E t \in tasks : Lookup(t)
    \/ \E t \in tasks : \E outcome \in OutcomesOf(inputs) : HandlerReturn(t, outcome)
    \/ \E t \in tasks : Finish(t)

Spec == Init /\ [][Next]_vars

SpecServe == InitServe /\ [][Next]_vars

(***************************************************************************)
(* id.rs: the identifier generator.  fetch_add is one atomic read-modify-  *)
(* write of ATOMIC_U64_ID, so a call is one step whatever thread makes it; *)
(* the calls of concurrent threads interleave in any order.                *)
(***************************************************************************)
FetchAddLostUpdate(c) == [returned |-> c, stored |-> IF c % 2 = 0 THEN c ELSE c + 1]

FetchAddNewValue(c) == [returned |-> c + 1, stored |-> c + 1]

\* AtomicU64::fetch_add(1): the value before the addition is returned.
FetchAdd(c) == [returned |-> c, stored |-> c + 1]

FormatId(n) == "id-" \o ToString(n)

next_number ==
    /\ Len(issued) < MaxIdCalls
    /\ LET id == FetchAdd(counter)
       IN  /\ counter' = id.stored
           /\ issued' = Append(issued, [drawn |-> id.returned, id |-> Number(id.returned)])
    /\ UNCHANGED <<regVars, clientVars, codecVars>>

next_string ==
    /\ Len(issued) < MaxIdCalls
    /\ LET id == FetchAdd(counter)
       IN  /\ counter' = id.stored
           /\ issued' = Append(issued, [drawn |-> id.returned,
                                        id |-> String(FormatId(id.returned))])
    /\ UNCHANGED <<regVars, clientVars, codecVars>>

NextId == next_number \/ next_string

SpecId == InitId /\ [][NextId]_vars

(***************************************************************************)
(* The conversions on their own: serde's Serialize and Deserialize of the  *)
(* version, the identifier and the envelopes, and FromStr of the version.  *)
(* A JSON document is modelled by its structure.                           *)
(***************************************************************************)
JBool(b) == [t |-> "bool", v |-> b]

\* A JSON number written with a fraction or an exponent (serde_json: an f64).
JReal(digits) == [t |-> "real", v |-> digits]

\* impl Deserialize for JsonRpcVersion: String::deserialize, then the match.
DeserializeVersion(j) ==
    IF j.t = "absent" THEN Err(SerdeError("missing field jsonrpc"))
    ELSE IF j.t # "str" THEN Err(SerdeError("invalid type"))
    ELSE IF j.v = "1.0" THEN Ok("V1_0")
    ELSE IF j.v = "2.0" THEN Ok("V2_0")
    ELSE Err(SerdeError("invalid JSON-RPC version"))

\* Deserialize for Option<T>: a missing key and null both give None.
DeserializeOption(j) == IF j.t \in {"absent", "null"} THEN None ELSE Some(j)

\* Deserialize for JsonRpcError.
DeserializeError(j) ==
    IF j.t # "error" THEN Err(SerdeError("invalid type"))
    ELSE Ok([code |-> j.code, message |-> j.message, data |-> DeserializeOption(j.data)])

\* Deserialize for JsonRpcResponse<serde_json::Value>.
DeserializeResponse(w) ==
    LET error == DeserializeOption(w.error)
    IN  IF ~DeserializeVersion(w.jsonrpc).ok THEN DeserializeVersion(w.jsonrpc)
        ELSE IF error.some /\ ~DeserializeError(error.val).ok THEN DeserializeError(error.val)
        ELSE IF w.id.t = "absent" THEN Err(SerdeError("missing field id"))
        ELSE IF ~DeserializeId(w.id).ok THEN DeserializeId(w.id)
        ELSE Ok(JsonRpcResponse(DeserializeVersion(w.jsonrpc).val,
                                DeserializeOption(w.result),
                                IF error.some THEN Some(DeserializeError(error.val).val) ELSE None,
                                DeserializeId(w.id).val))

\* The values that are serialized.
Versions == {"V1_0", "V2_0"}

Ids == {Number(0), Number(1), String("x"), String("")}

Results == {None, Some(JNull), Some(JStr("hi")), Some(JNum(3))}

Errors ==
    {None,
     Some(JsonRpcError(-32601, "method not found")),
     Some([code |-> -32003, message |-> "oops", data |-> Some(JStr("why"))]),
     Some([code |-> -32003, message |-> "oops", data |-> Some(JNull)])}

Responses ==
    {JsonRpcResponse(v, r, e, i) : v \in Versions, r \in Results, e \in Errors, i \in Ids}

\* The texts and documents that are parsed.
VersionTexts == {"1.0", "2.0", "9.9", "1", "2", "v2", "2.00", ""}

IdDocuments ==
    {JNull, JBool(TRUE), JBool(FALSE), JNum(0), JNum(1), JNum(-1), JReal("1.5"),
     JStr("x"), JStr("1"), JStr(""), JArr(<<>>), JArr(<<JNum(1)>>), JObj({}),
     JObj({<<"id", JNum(1)>>})}

Typed(kind, v) == [kind |-> kind, v |-> v]

Parsed(by, r) == [by |-> by, r |-> r]

VersionDocuments == {JStr(s) : s \in VersionTexts} \cup {JNum(2), JNull}

\* A conversion is given either a value to write or a document to read.
InitCodec ==
    /\ InitRegistry({}, "race", {"echo"}, {<<>>})
    /\ InitIds
    /\ NoClient
    /\ \/ \E v \in Versions : value = Typed("version", v) /\ serialized = Nothing
       \/ \E i \in Ids : value = Typed("id", i) /\ serialized = Nothing
       \/ \E r \in Responses : value = Typed("response", r) /\ serialized = Nothing
       \/ \E s \in VersionTexts : value = Nothing /\ serialized = Typed("text", s)
       \/ \E j \in VersionDocuments : value = Nothing /\ serialized = Typed("version", j)
       \/ \E j \in IdDocuments : value = Nothing /\ serialized = Typed("id", j)
    /\ parsed = Nothing

Writes(kind, out) ==
    /\ value # Nothing
    /\ value.kind = kind
    /\ serialized = Nothing
    /\ serialized' = Typed(kind, out)
    /\ UNCHANGED <<regVars, idVars, clientVars, value, parsed>>

Reads(kind, by, r) ==
    /\ serialized # Nothing
    /\ serialized.kind = kind
    /\ parsed = Nothing
    /\ parsed' = Parsed(by, r)
    /\ UNCHANGED <<regVars, idVars, clientVars, value, serialized>>

\* impl Serialize for JsonRpcVersion
version_serialize == Writes("version", SerializeVersion(value.v))

\* impl Deserialize for JsonRpcVersion
version_deserialize == Reads("version", "deserialize", DeserializeVersion(serialized.v))

\* impl FromStr for JsonRpcVersion, on a text or on the text of a JSON string
version_from_str ==
    \/ Reads("text", "from_str", VersionFromStr(serialized.v))
    \/ /\ serialized # Nothing
       /\ serialized.kind = "version"
       /\ serialized.v.t = "str"
       /\ Reads("version", "from_str", VersionFromStr(serialized.v.v))

\* Serialize for Id
id_serialize == Writes("id", SerializeId(value.v))

\* Deserialize for Id
id_deserialize == Reads("id", "deserialize", DeserializeId(serialized.v))

\* serde_json::to_string(&response)
response_to_string == Writes("response", SerializeResponse(value.v))

\* serde_json::from_str::<JsonRpcResponse<R>>(&text)
response_from_str == Reads("response", "deserialize", DeserializeResponse(serialized.v))

NextCodec ==
    \/ version_serialize
    \/ version_deserialize
    \/ version_from_str
    \/ id_serialize
    \/ id_deserialize
    \/ response_to_string
    \/ response_from_str

SpecCodec == InitCodec /\ [][NextCodec]_vars

(***************************************************************************)
(* request.rs: JsonRpcRequest.  params is an Option; the array of          *)
(* JsonRpcRequest<Vec<Value>> and the value of JsonRpcRequest<Value> are   *)
(* both written as the JSON value they serialize to.                       *)
(***************************************************************************)
JsonRpcRequest(jsonrpc, method, params, id) ==
    [jsonrpc |-> jsonrpc, method |-> method, params |-> params, id |-> id]

new_v1(id, method) == JsonRpcRequest("V1_0", method, None, id)

new_v2(id, method) == JsonRpcRequest("V2_0", method, None, id)

set_paramsUnlessEmpty(q, params) ==
    IF (params.t = "arr" /\ params.v = <<>>) \/ (params.t = "obj" /\ params.v = {})
    THEN q ELSE [q EXCEPT !.params = Some(params)]

set_params(q, params) == [q EXCEPT !.params = Some(params)]

add_paramInFront(q, param) ==
    IF ~q.params.some
    THEN [q EXCEPT !.params = Some(JArr(<<param>>))]
    ELSE [q EXCEPT !.params = Some(JArr(<<param>> \o q.params.val.v))]

\* JsonRpcRequest<Vec<Value>>::add_param
add_param(q, param) ==
    IF ~q.params.some
    THEN [q EXCEPT !.params = Some(JArr(<<param>>))]
    ELSE [q EXCEPT !.params = Some(JArr(Append(q.params.val.v, param)))]

SerializeRequestNull(q) ==
    Object(JStr(q.method), SerializeVersion(q.jsonrpc),
           IF q.params.some THEN q.params.val ELSE JNull, SerializeId(q.id))

\* The derived Serialize: params is skipped when it is None.
SerializeRequest(q) ==
    Object(JStr(q.method), SerializeVersion(q.jsonrpc),
           IF q.params.some THEN q.params.val ELSE JAbsent, SerializeId(q.id))

(***************************************************************************)
(* client.rs: the values a request is sent from, and rpc_method functions. *)
(***************************************************************************)
UnitValue == [shape |-> "unit"]
Scalar32(n) == [shape |-> "scalar", items |-> <<JNum(n)>>]
Str(s) == [shape |-> "str", items |-> <<JStr(s)>>]
Tuple(items) == [shape |-> "tuple", items |-> items]
Vec(items) == [shape |-> "vec", items |-> items]
Slice(items) == [shape |-> "slice", items |-> items]
OptionOf(inner) == [shape |-> "option", inner |-> inner]

\* A struct that derives JsonRpcClient: its fields in declaration order,
\* each as the value serde_json::to_value gives, and their names.
Struct(names, items) == [shape |-> "struct", items |-> items, names |-> names]

\* A function annotated with rpc_method: its attributes and the arguments of
\* one call, each with the name of its parameter.
RpcMethod(version, mode, args) ==
    [shape |-> "rpc_method", version |-> version, mode |-> mode, args |-> args]

Arg(name, v) == [name |-> name, v |-> v]

Selves ==
    {UnitValue, Scalar32(1), Str("hi"),
     Tuple(<<JNum(1), JStr("hi")>>), Tuple(<<JStr("hi"), JNum(1)>>),
     Vec(<<>>), Vec(<<JNum(1)>>), Vec(<<JNum(2), JNum(1)>>),
     Vec(<<JNum(2), JNum(1), JNum(2)>>),
     Slice(<<>>), Slice(<<JNum(1), JNum(2)>>),
     OptionOf(None), OptionOf(Some(Scalar32(1))), OptionOf(Some(Vec(<<>>))),
     Struct(<<"lhs", "rhs">>, <<JNum(1), JNum(2)>>)}

SendFns ==
    {"send_v1_request", "send_v2_request", "send_v1_request_obj", "send_v2_request_obj"}

\* The version texts RpcAttr::parse of the service macros takes.
AttrVersions == {"v1", "V1", "1.0", "1", "v2", "V2", "2.0", "2"}

\* RpcAttr::parse: the version text as the protocol version of the handler.
RpcAttrVersion(text) == IF text \in {"v1", "V1", "1.0", "1"} THEN "1.0" ELSE "2.0"

RpcMethods ==
    {RpcMethod(v, m, a) :
        v \in AttrVersions, m \in {"array", "obj"},
        a \in {<<>>, <<Arg("msg", JStr("hi"))>>, <<Arg("lhs", JNum(1)), Arg("rhs", JNum(2))>>,
               <<Arg("items", JArr(<<JNum(1), JNum(2)>>))>>}}

\* A call: the value or function it is made on and, for a value, the trait
\* function called.  origin keeps the call as the application made it.
Call(self, fn) == [self |-> self, fn |-> fn, origin |-> [self |-> self, fn |-> fn]]

Calls ==
    {Call(s, f) : s \in Selves, f \in SendFns} \cup {Call(r, "call") : r \in RpcMethods}

\* The trait's default send_v*_request_obj call the array function; only ()
\* and the derived implementation override them.
ArrayFn(fn) ==
    IF fn \in {"send_v1_request", "send_v1_request_obj"}
    THEN "send_v1_request" ELSE "send_v2_request"

EffectiveFn(self, fn) == IF self.shape \in {"unit", "struct"} THEN fn ELSE ArrayFn(fn)

NewRequest(fn, id, method) ==
    IF fn \in {"send_v1_request", "send_v1_request_obj"}
    THEN new_v1(id, method) ELSE new_v2(id, method)

\* args.version.to_lowercase(), on the version texts
ToLowercase(text) == IF text = "V1" THEN "v1" ELSE IF text = "V2" THEN "v2" ELSE text

\* version_str.contains("v1"), on the lowercase version texts
ContainsV1(text) == text = "v1"

UsesV1(version) == ContainsV1(ToLowercase(version))

\* `let params = (a, b, ..)`: the unit value, the one argument itself, a tuple.
ArgsValue(args) ==
    IF Len(args) = 0 THEN UnitValue
    ELSE IF Len(args) = 1
    THEN (IF args[1].v.t = "str" THEN Str(args[1].v.v)
          ELSE IF args[1].v.t = "arr" THEN Vec(args[1].v.v)
          ELSE Scalar32(args[1].v.v))
    ELSE Tuple([k \in 1..Len(args) |-> args[k].v])

\* serde_json::to_value(helper): the object of the arguments by name.
HelperValue(args) == JObj({<<args[k].name, args[k].v>> : k \in 1..Len(args)})

\* The method every call of the model names: the method of the function the
\* server runs where there is one, and ping of tests/client_test.rs.
ClientMethod == IF services = <<>> THEN "ping" ELSE services[1].method

InitClient ==
    /\ InitRegistry({}, "race", {"echo"}, {<<>>})
    /\ InitIds
    /\ NoCodec
    /\ client \in Calls
    /\ cpc = "start"
    /\ outgoing = Nothing
    /\ pending = <<>>
    /\ posted = Nothing
    /\ answer = Nothing

\* Id::next_number() as the first statement of a send function.
DrawId ==
    /\ Len(issued) < MaxIdCalls
    /\ counter' = FetchAdd(counter).stored
    /\ issued' = Append(issued, [drawn |-> FetchAdd(counter).returned,
                                 id |-> Number(FetchAdd(counter).returned)])

\* The request a send function has just created.
Fresh == NewRequest(EffectiveFn(client.self, client.fn),
                    Number(FetchAdd(counter).returned), ClientMethod)

\* send_v*_request of a scalar, a string, a tuple, a Vec, a slice or a
\* derived struct: the id, the request, then the loop (or the add_param
\* statements) over the items.
send_items ==
    /\ cpc = "start"
    /\ client.self.shape \in {"scalar", "str", "tuple", "vec", "slice", "struct"}
    /\ EffectiveFn(client.self, client.fn) \in {"send_v1_request", "send_v2_request"}
    /\ DrawId
    /\ outgoing' = Fresh
    /\ pending' = client.self.items
    /\ cpc' = IF client.self.items = <<>> THEN "post" ELSE "add"
    /\ UNCHANGED <<regVars, codecVars, client, posted, answer>>

\* send_v*_request and send_v*_request_obj of (): the id and the request.
send_unit ==
    /\ cpc = "start"
    /\ client.self.shape = "unit"
    /\ DrawId
    /\ outgoing' = Fresh
    /\ cpc' = "set"
    /\ UNCHANGED <<regVars, codecVars, client, pending, posted, answer>>

\* send_v*_request_obj of a derived struct: the id, the request and
\* set_params of the struct's own value.
send_struct_obj ==
    /\ cpc = "start"
    /\ client.self.shape = "struct"
    /\ client.fn \in {"send_v1_request_obj", "send_v2_request_obj"}
    /\ DrawId
    /\ outgoing' = set_params(Fresh,
            JObj({<<client.self.names[k], client.self.items[k]>> :
                    k \in 1..Len(client.self.items)}))
    /\ cpc' = "post"
    /\ UNCHANGED <<regVars, codecVars, client, pending, posted, answer>>

\* send_v*_request of an Option: the id and the request; Some(inner) then
\* returns what the same function of inner gives, None goes on.
send_option ==
    /\ cpc = "start"
    /\ client.self.shape = "option"
    /\ DrawId
    /\ IF client.self.inner.some
       THEN /\ client' = [client EXCEPT !.self = client.self.inner.val,
                                        !.fn = ArrayFn(client.fn)]
            /\ outgoing' = Nothing
            /\ cpc' = "start"
       ELSE /\ outgoing' = Fresh
            /\ cpc' = "set"
            /\ UNCHANGED client
    /\ UNCHANGED <<regVars, codecVars, pending, posted, answer>>

\* body.add_param(item)
add_param_step ==
    /\ cpc = "add"
    /\ outgoing' = add_param(outgoing, Head(pending))
    /\ pending' = Tail(pending)
    /\ cpc' = IF Tail(pending) = <<>> THEN "post" ELSE "add"
    /\ UNCHANGED <<regVars, idVars, codecVars, client, posted, answer>>

\* body.set_params(vec![]), or body.set_params(json!({})) in the _obj
\* functions of ()
set_params_step ==
    /\ cpc = "set"
    /\ outgoing' = set_params(outgoing,
                              IF EffectiveFn(client.self, client.fn)
                                    \in {"send_v1_request_obj", "send_v2_request_obj"}
                              THEN JObj({}) ELSE JArr(<<>>))
    /\ cpc' = "post"
    /\ UNCHANGED <<regVars, idVars, codecVars, client, pending, posted, answer>>

\* The body of an rpc_method function in array mode: the arguments as one
\* value, and the send function of that value.
rpc_method_array ==
    /\ cpc = "start"
    /\ client.self.shape = "rpc_method"
    /\ client.self.mode = "array"
    /\ client' = [client EXCEPT
                    !.self = ArgsValue(client.self.args),
                    !.fn = IF UsesV1(client.self.version)
                           THEN "send_v1_request" ELSE "send_v2_request"]
    /\ UNCHANGED <<regVars, idVars, codecVars, cpc, outgoing, pending, posted, answer>>

\* The body of an rpc_method function in obj mode: the helper struct, the
\* id, the request and set_params of the helper's value.
rpc_method_obj ==
    /\ cpc = "start"
    /\ client.self.shape = "rpc_method"
    /\ client.self.mode = "obj"
    /\ DrawId
    /\ outgoing' = set_params(
            NewRequest(IF UsesV1(client.self.version)
                       THEN "send_v1_request" ELSE "send_v2_request",
                       Number(FetchAdd(counter).returned), ClientMethod),
            HelperValue(client.self.args))
    /\ cpc' = "post"
    /\ UNCHANGED <<regVars, codecVars, client, pending, posted, answer>>

\* The send function ends a failed send() with unwrap(): send_v2_request of
\* the scalars.  Every other send function ends it with the ? operator.
SendUnwraps(self, fn) == self.shape = "scalar" /\ ArrayFn(fn) = "send_v2_request"

\* From<reqwest::Error> for RpcError
ReqwestError(text) == RpcError("ReqwestError", text)

\* reqwest: .json(&body) serializes the request, send() delivers it.
post ==
    /\ cpc = "post"
    /\ posted' = SerializeRequest(outgoing)
    /\ cpc' = "posted"
    /\ UNCHANGED <<regVars, idVars, codecVars, client, outgoing, pending, answer>>

\* send() fails: the request does not reach the server.
post_failed ==
    /\ cpc = "post"
    /\ IF SendUnwraps(client.self, client.fn)
       THEN /\ cpc' = "panicked"
            /\ UNCHANGED answer
       ELSE /\ cpc' = "returned"
            /\ answer' = Err(ReqwestError("error sending request"))
    /\ UNCHANGED <<regVars, idVars, codecVars, client, outgoing, pending, posted>>

\* The payloads that may come back for the posted request: the reply of the
\* server task that handled it or, where no server is modelled, a success,
\* an error and a payload that is no response.
Replies ==
    IF tasks = {}
    THEN {[jsonrpc |-> posted.jsonrpc, result |-> JStr("pong"), error |-> JAbsent,
           id |-> posted.id],
          ErrorResponse(posted.jsonrpc, SerializeError(FromRpcError(MethodNotFound)),
                        posted.id),
          ErrorResponse(JNull, InternalError(SerdeError("expected value")), JNull)}
    ELSE {resp[t] : t \in {u \in tasks : pc[u] = "done" /\ body[u] = posted}}

\* resp.text() and serde_json::from_str::<JsonRpcResponse<R>>(&text)
receive ==
    /\ cpc = "posted"
    /\ \E text \in Replies : answer' = DeserializeResponse(text)
    /\ cpc' = "returned"
    /\ UNCHANGED <<regVars, idVars, codecVars, client, outgoing, pending, posted>>

\* resp.text() fails: the connection broke while the reply was read.
receive_failed ==
    /\ cpc = "posted"
    /\ answer' = Err(ReqwestError("error decoding response body"))
    /\ cpc' = "returned"
    /\ UNCHANGED <<regVars, idVars, codecVars, client, outgoing, pending, posted>>

\* The application makes its next call, once the call before has returned
\* (or its task has panicked) and the server has finished with it.
next_call ==
    /\ cpc \in {"returned", "panicked"}
    /\ \A t \in tasks : pc[t] = "idle"
    /\ client' \in Calls
    /\ cpc' = "start"
    /\ outgoing' = Nothing
    /\ pending' = <<>>
    /\ posted' = Nothing
    /\ answer' = Nothing
    /\ UNCHANGED <<regVars, idVars, codecVars>>

NextClient ==
    \/ send_items
    \/ send_unit
    \/ send_struct_obj
    \/ send_option
    \/ add_param_step
    \/ set_params_step
    \/ rpc_method_array
    \/ rpc_method_obj
    \/ post
    \/ post_failed
    \/ receive
    \/ receive_failed
    \/ next_call

SpecClient == InitClient /\ [][NextClient]_vars

(***************************************************************************)
(* A client and a server: the request a client call posts is the body of   *)
(* the server task's dispatch(), and the reply of the task is the payload  *)
(* the call reads.  The server runs one annotated function, so its table   *)
(* is never poisoned.                                                      *)
(***************************************************************************)
CallFns == {Ping, TodoList, EchoArray, EchoLegacy, AddArray}

CallLists == {<<RpcServiceEntry(f)>> : f \in CallFns}

InitCall ==
    /\ InitRegistry({1}, "call", {"echo"}, CallLists)
    /\ InitIds
    /\ NoCodec
    /\ client \in Calls
    /\ cpc = "start"
    /\ outgoing = Nothing
    /\ pending = <<>>
    /\ posted = Nothing
    /\ answer = Nothing

NextCall ==
    \/ send_items
    \/ send_unit
    \/ send_struct_obj
    \/ send_option
    \/ add_param_step
    \/ set_params_step
    \/ rpc_method_array
    \/ rpc_method_obj
    \/ post
    \/ post_failed
    \/ receive
    \/ receive_failed
    \/ next_call
    \/ \E t \in tasks : CallInit(t)
    \/ \E t \in tasks : \E b \in BodiesOf(inputs) : CallDispatch(t, b)
    \/ \E t \in tasks : ForceBegin(t)
    \/ \E t \in tasks : ForceEnd(t)
    \/ \E t \in tasks : InitReturn(t)
    \/ \E t \in tasks : Lookup(t)
    \/ \E t \in tasks : \E outcome \in OutcomesOf(inputs) : HandlerReturn(t, outcome)
    \/ \E t \in tasks : Finish(t)

SpecCall == InitCall /\ [][NextCall]_vars

(***************************************************************************)
(* Properties.                                                             *)
(***************************************************************************)
\* The registration entries that carry a method name.
EntriesFor(m) == {i \in DOMAIN services : services[i].method = m}

HasDuplicate ==
    \E i, j \in DOMAIN services : i # j /\ services[i].method = services[j].method

\* Task t called dispatch() with a body whose method field can be peeked.
Dispatching(t) == op[t] = "dispatch" /\ MethodEnvelope(body[t]).ok

MethodOf(t) == MethodEnvelope(body[t]).val

\* C1: a request for a method registered exactly once reaches that method's
\* handler, once, and no other handler; the handler gets the request bytes as
\* they came in, and dispatch() returns what the handler returned, be it the
\* serialized response or an error.
C1_RoutedToItsHandler ==
    \A t \in tasks :
        (Dispatching(t) /\ Cardinality(EntriesFor(MethodOf(t))) = 1) =>
            LET entry == services[CHOOSE i \in EntriesFor(MethodOf(t)) : TRUE]
            IN  /\ pc[t] \in {"await", "done"} =>
                    calls[t] = << <<entry.handler, body[t]>> >>
                /\ pc[t] = "done" =>
                    /\ hout[t] # Nothing
                    /\ ret[t] = hout[t].result

C1_Witness ==
    \E t \in tasks :
        /\ Dispatching(t)
        /\ Cardinality(EntriesFor(MethodOf(t))) = 1
        /\ pc[t] = "done"
        /\ Len(calls[t]) = 1
        /\ ret[t].ok
        /\ body[t].params # JAbsent

\* C2: a request for a method that is not registered reaches no handler and
\* dispatch() returns MethodNotFound, whose wire error object has the code
\* -32601 and the message "method not found".
C2_UnknownMethodNotFound ==
    \A t \in tasks :
        (Dispatching(t) /\ EntriesFor(MethodOf(t)) = {}) =>
            /\ calls[t] = <<>>
            /\ pc[t] # "await"
            /\ pc[t] = "done" =>
                /\ ret[t] = Err(MethodNotFound)
                /\ FromRpcError(ret[t].err).code = -32601
                /\ FromRpcError(ret[t].err).message = "method not found"
                /\ example = "echo" =>
                    /\ resp[t].error.t = "error"
                    /\ resp[t].error.code = -32601
                    /\ resp[t].error.message = "method not found"

C2_Witness ==
    \E t \in tasks :
        /\ Dispatching(t)
        /\ EntriesFor(MethodOf(t)) = {}
        /\ services # <<>>
        /\ pc[t] = "done"
        /\ ret[t] = Err(MethodNotFound)
        /\ example = "echo"
        /\ resp[t] = ErrorResponse(JStr("2.0"),
                        [t |-> "error", code |-> -32601, message |-> "method not found",
                         data |-> JAbsent],
                        JNum(1))

\* C3: when two registration entries share a method name, in either order,
\* the route table is never produced; a table that is produced maps every
\* entry's method name to that entry's handler, so no entry was replaced.
C3_DuplicateIsFatal ==
    /\ HasDuplicate => (route.state # "Ready" /\ route.map = EmptyMap)
    /\ route.state = "Ready" =>
        /\ DOMAIN route.map = {services[i].method : i \in DOMAIN services}
        /\ \A i \in DOMAIN services : route.map[services[i].method] = services[i].handler
    /\ \A t \in tasks : (HasDuplicate /\ op[t] = "init") => pc[t] # "done"

C3_Witness ==
    /\ HasDuplicate
    /\ services[1].handler = EchoLegacy
    /\ route.state = "Poisoned"
    /\ \E t \in tasks : pc[t] = "panicked"

\* The id and the jsonrpc value of a request, null when the document has none.
RequestId(b) == IF b.id = JAbsent THEN JNull ELSE b.id

RequestVersion(b) == IF b.jsonrpc = JAbsent THEN JNull ELSE b.jsonrpc

\* C4: whenever the request bytes are JSON, the reply carries the id and the
\* jsonrpc of the request, whether the handler built the response or the
\* reply is the error response made from the error dispatch() returned.
C4_ReplyEchoesIdAndVersion ==
    \A t \in tasks :
        (op[t] = "dispatch" /\ pc[t] = "done" /\ body[t].kind # "garbage") =>
            /\ resp[t].id = RequestId(body[t])
            /\ resp[t].jsonrpc = RequestVersion(body[t])

C4_Witness ==
    \E t \in tasks :
        /\ op[t] = "dispatch"
        /\ pc[t] = "done"
        /\ ret[t].ok
        /\ body[t].id = JStr("x")
        /\ body[t].jsonrpc = JStr("1.0")
        /\ resp[t].id = JStr("x")

\* C5: every reply, on the success path and on every error path including
\* that of bytes that are not JSON, has exactly one of result and error.
C5_ResultXorError ==
    \A t \in tasks :
        (op[t] = "dispatch" /\ pc[t] = "done") =>
            (resp[t].result # JAbsent) # (resp[t].error # JAbsent)

C5_Witness ==
    \E t \in tasks :
        /\ op[t] = "dispatch"
        /\ pc[t] = "done"
        /\ ret[t].ok
        /\ resp[t].result = JNull
        /\ resp[t].error = JAbsent

\* C6: next_number and next_string draw from the one counter: each call
\* advances it by one, no two calls of either flavour draw the same value, a
\* number id is the value drawn and a string id is "id-" followed by it.
C6_IdsNeverCollide ==
    /\ counter = 1 + Len(issued)
    /\ \A i, j \in DOMAIN issued :
        i # j => (issued[i].drawn # issued[j].drawn /\ issued[i].id # issued[j].id)
    /\ \A i \in DOMAIN issued :
        \/ issued[i].id = Number(issued[i].drawn)
        \/ issued[i].id = String("id-" \o ToString(issued[i].drawn))

C6_Witness ==
    /\ Len(issued) >= 4
    /\ \E i, j \in DOMAIN issued :
        /\ i < j
        /\ issued[i].id.variant = "String"
        /\ issued[j].id.variant = "Number"
    /\ \E i \in DOMAIN issued : issued[i].id = String("id-3")

\* C7: whatever the interleaving of init() and dispatch() calls, the closure
\* of the route table is started at most once and by one task at a time, no
\* task gets past the table before it is built, and a built table never
\* changes again.
C7_BuiltAtMostOnce ==
    [][/\ builds' <= 1
       /\ Cardinality({t \in tasks : pc'[t] = "building"}) <= 1
       /\ \A t \in tasks : pc'[t] = "await" => route'.state = "Ready"
       /\ route.state = "Ready" => route' = route]_vars

C7_Witness ==
    /\ route.state = "Ready"
    /\ builds = 1
    /\ \E t, u \in tasks :
        /\ t # u
        /\ op[t] = "init" /\ pc[t] = "done"
        /\ op[u] = "dispatch" /\ pc[u] = "await"

\* C8 as claimed: the step that detects the duplicate (the closure of the
\* route table panics) is never a step of a dispatch() call.
C8_NeverDetectedByDispatch ==
    [][\A t \in tasks :
          (pc[t] = "building" /\ pc'[t] = "panicked") => op[t] # "dispatch"]_vars

\* C8 as amended: the duplicate is raised as a panic by the call that makes
\* the first access to the route table, be it init() or a dispatch(), and
\* again by every later access, never as an error value that dispatch()
\* returns: with a duplicate registered, init() never returns and dispatch()
\* returns only for a body whose method field cannot be read.
C8_DuplicateIsAPanic ==
    [][/\ route'.state = "Poisoned" <=>
            (HasDuplicate /\ builds' = 1 /\ route'.state # "Building")
       /\ \A t \in tasks :
            /\ (HasDuplicate /\ pc'[t] = "done") =>
                    (op'[t] = "dispatch" /\ ~MethodEnvelope(body'[t]).ok /\ ~ret'[t].ok)
            /\ (pc[t] = "building" /\ pc'[t] = "panicked") => route'.state = "Poisoned"
            /\ (pc[t] = "force" /\ route.state = "Poisoned") =>
                    pc'[t] \in {"force", "panicked"}]_vars

C8_Witness ==
    /\ HasDuplicate
    /\ route.state = "Poisoned"
    /\ \E t, u \in tasks :
        /\ op[t] = "init" /\ pc[t] = "panicked"
        /\ op[u] = "dispatch" /\ pc[u] = "panicked"

\* The wire code and message the error table gives for a kind.
TableCode(kind) ==
    CASE kind = "IoError" -> -32000
      [] kind = "ReqwestError" -> -32001
      [] kind = "SerdeError" -> -32002
      [] kind = "CustomError" -> -32003
      [] kind = "InvalidJsonRpcVersion" -> -32600
      [] kind = "MethodNotFound" -> -32601
      [] kind = "InvalidParams" -> -32602

TableMessage(err) ==
    CASE err.kind = "InvalidJsonRpcVersion" -> "Invalid JSON-RPC version: " \o err.text
      [] err.kind = "MethodNotFound" -> "method not found"
      [] err.kind = "InvalidParams" -> "Invalid parameters: " \o err.text
      [] OTHER -> err.text

\* C9: the error a dispatch() call returns, of whichever of the seven kinds,
\* converts to the wire error with the code of its kind, the message of the
\* table and no data; in the echo server that is the error of the reply.
C9_ErrorTable ==
    \A t \in tasks :
        (op[t] = "dispatch" /\ pc[t] = "done" /\ ~ret[t].ok) =>
            LET wire == FromRpcError(ret[t].err)
            IN  /\ ret[t].err.kind \in ErrorKinds
                /\ wire.code = TableCode(ret[t].err.kind)
                /\ wire.message = TableMessage(ret[t].err)
                /\ wire.data = None
                /\ SerializeError(wire).data = JAbsent
                /\ (example = "echo" /\ body[t].kind # "garbage") =>
                        resp[t].error = [t |-> "error", code |-> TableCode(ret[t].err.kind),
                                         message |-> TableMessage(ret[t].err), data |-> JAbsent]

C9_Witness ==
    \E t \in tasks :
        /\ op[t] = "dispatch"
        /\ pc[t] = "done"
        /\ ~ret[t].ok
        /\ ret[t].err.kind = "ReqwestError"
        /\ example = "echo"
        /\ resp[t].error.code = -32001

\* C10 as claimed: whatever error dispatch() returns, the reply's error object
\* is the table's conversion of it, and the reply has the request's id when
\* the request has one.
C10_EveryErrorThroughTheTable ==
    \A t \in tasks :
        (op[t] = "dispatch" /\ pc[t] = "done" /\ ~ret[t].ok) =>
            /\ resp[t].error = SerializeError(FromRpcError(ret[t].err))
            /\ body[t].id # JAbsent => resp[t].id = body[t].id

\* C11 as claimed: for an input buffer that is not JSON, dispatch() fails with
\* the serialization failure and the reply sent back has id null, jsonrpc
\* null and the error code -32002.
C11_MalformedRepliesSerdeCode ==
    \A t \in tasks :
        (op[t] = "dispatch" /\ pc[t] = "done" /\ body[t].kind = "garbage") =>
            /\ ~ret[t].ok
            /\ ret[t].err.kind = "SerdeError"
            /\ resp[t].id = JNull
            /\ resp[t].jsonrpc = JNull
            /\ resp[t].error.code = -32002

\* Task t's dispatch() is over and its request was handed to a handler.
Routed(t) == op[t] = "dispatch" /\ pc[t] = "done" /\ Len(calls[t]) = 1

HandlerOf(t) == calls[t][1][1]

\* The id of a body is one an Id can hold: a string or an unsigned number.
IdIsWellFormed(b) == b.id.t = "str" \/ (b.id.t = "num" /\ b.id.v >= 0)

ParamsAreAbsent(b) == b.params.t \in {"absent", "null"}

\* The params of a body have the shape the handler's request struct takes:
\* anything for an array handler without parameters, else one element of the
\* declared type per parameter, or (obj mode) an object with every field.
ParamsFit(f, b) ==
    \/ f.mode = "array" /\ Len(f.params) = 0
    \/ /\ b.params.t = "arr"
       /\ Len(b.params.v) = Len(f.params)
       /\ \A k \in 1..Len(f.params) : b.params.v[k].t = f.params[k].type
    \/ /\ f.mode = "obj"
       /\ b.params.t = "obj"
       /\ \A k \in 1..Len(f.params) :
            \E kv \in b.params.v : kv[1] = f.params[k].name /\ kv[2].t = f.params[k].type

\* The version text of a body is a text, and not the handler's.
OtherVersion(f, b) == b.jsonrpc.t = "str" /\ b.jsonrpc.v # f.version

\* C12 as claimed: any request (a string or unsigned number id) routed to a
\* handler with a version text that is not the handler's fails with
\* InvalidVersion, whatever its params.
C12_AnyOtherVersionIsInvalidVersion ==
    \A t \in tasks :
        (Routed(t) /\ OtherVersion(HandlerOf(t), body[t]) /\ IdIsWellFormed(body[t])) =>
            /\ ~ret[t].ok
            /\ ret[t].err.kind = "InvalidJsonRpcVersion"

\* C13: a request routed to a handler that declares at least one parameter,
\* with the handler's version and a well-formed id, whose params are omitted
\* or null, fails with InvalidParams; the business function is not called,
\* the table maps the error to code -32602, and that is the code of the echo
\* server's reply.
C13_AbsentParamsIsInvalidParams ==
    \A t \in tasks :
        (/\ Routed(t)
         /\ Len(HandlerOf(t).params) >= 1
         /\ body[t].jsonrpc = JStr(HandlerOf(t).version)
         /\ IdIsWellFormed(body[t])
         /\ ParamsAreAbsent(body[t])) =>
            /\ ~ret[t].ok
            /\ ret[t].err.kind = "InvalidParams"
            /\ ret[t].err.text \in
                  {"Method '" \o HandlerOf(t).method \o "' requires array parameters",
                   "Method '" \o HandlerOf(t).method \o "' requires parameters"}
            /\ ~hout[t].invoked
            /\ FromRpcError(ret[t].err).code = -32602
            /\ example = "echo" => resp[t].error.code = -32602

C13_Witness ==
    \E t \in tasks :
        /\ Routed(t)
        /\ HandlerOf(t) = EchoLegacy
        /\ body[t].jsonrpc = JStr("1.0")
        /\ body[t].params = JNull
        /\ example = "echo"
        /\ ret[t] = Err(RpcError("InvalidParams", "Method 'echoArray' requires parameters"))
        /\ ~hout[t].invoked
        /\ resp[t].error.code = -32602

\* C14 as claimed: a request routed to a handler, with the handler's version
\* and a well-formed id, whose params are present but not of the shape the
\* handler declares (an element of another type, another number of
\* elements, a named field missing) fails with InvalidParams, code -32602.
C14_MalformedParamsIsInvalidParams ==
    \A t \in tasks :
        (/\ Routed(t)
         /\ body[t].jsonrpc = JStr(HandlerOf(t).version)
         /\ IdIsWellFormed(body[t])
         /\ ~ParamsAreAbsent(body[t])
         /\ ~ParamsFit(HandlerOf(t), body[t])) =>
            /\ ~ret[t].ok
            /\ ret[t].err.kind = "InvalidParams"
            /\ FromRpcError(ret[t].err).code = -32602

\* C15 as claimed: the number next_number() returned is the value of the
\* counter after that call's increment (so right after a call that returned
\* Number(n), the counter holds n).
C15_ReturnsPostIncrement ==
    (issued # <<>> /\ issued[Len(issued)].id.variant = "Number") =>
        issued[Len(issued)].id = Number(counter)

\* C15: the counter starts at 1 and every call adds one to it; the call that
\* finds the counter at n returns Number(n), the value before its own
\* increment, so the first identifier of a process is 1 and right after a
\* call that returned Number(n) the counter holds n + 1.
C15_ReturnsValueBeforeIncrement ==
    /\ counter = 1 + Len(issued)
    /\ \A i \in DOMAIN issued :
        issued[i].id.variant = "Number" => issued[i].id = Number(i)
    /\ (issued # <<>> /\ issued[Len(issued)].id.variant = "Number") =>
        issued[Len(issued)].id = Number(counter - 1)

C15_Witness ==
    /\ Len(issued) = 2
    /\ issued[1].id = Number(1)
    /\ issued[2].id = Number(2)
    /\ counter = 3

\* C16 as claimed: a response envelope (either version, a number or a string
\* id, result and error each present or absent) that is serialized and
\* parsed back is the envelope it was, field by field.
C16_RoundTripIsIdentity ==
    (/\ value # Nothing
     /\ value.kind = "response"
     /\ parsed # Nothing
     /\ parsed.by = "deserialize") =>
        /\ parsed.r.ok
        /\ parsed.r.val.jsonrpc = value.v.jsonrpc
        /\ parsed.r.val.result = value.v.result
        /\ parsed.r.val.error = value.v.error
        /\ parsed.r.val.id = value.v.id

\* The version text a parser was given.
TextRead == IF serialized.kind = "text" THEN serialized.v ELSE serialized.v.v

\* A parser of version texts has run on a text.
VersionParsed ==
    /\ parsed # Nothing
    /\ serialized.kind \in {"text", "version"}
    /\ serialized.kind = "version" => serialized.v.t = "str"

\* C17 as claimed: whichever way a version text is parsed (from_str, or the
\* Deserialize that reads the jsonrpc field of a payload), "1.0" gives V1_0,
\* "2.0" gives V2_0 and every other text fails with InvalidVersion carrying
\* that text.
C17_EveryParseFailsWithInvalidVersion ==
    VersionParsed =>
        parsed.r = (IF TextRead = "1.0" THEN Ok("V1_0")
                    ELSE IF TextRead = "2.0" THEN Ok("V2_0")
                    ELSE Err(RpcError("InvalidJsonRpcVersion", TextRead)))

\* C17: from_str returns V1_0 exactly for "1.0" and V2_0 exactly for "2.0" and
\* for every other text fails with InvalidVersion carrying that text; the
\* Deserialize of the version accepts the same two texts and fails for every
\* other with a serialization failure that does not carry the text; a
\* version is serialized as "1.0" or "2.0" and nothing else, and either
\* parser gives the version back from its serialized text.
C17_VersionTextIsExact ==
    /\ (VersionParsed /\ parsed.by = "from_str") =>
            parsed.r = (IF TextRead = "1.0" THEN Ok("V1_0")
                        ELSE IF TextRead = "2.0" THEN Ok("V2_0")
                        ELSE Err(RpcError("InvalidJsonRpcVersion", TextRead)))
    /\ (VersionParsed /\ parsed.by = "deserialize") =>
            parsed.r = (IF TextRead = "1.0" THEN Ok("V1_0")
                        ELSE IF TextRead = "2.0" THEN Ok("V2_0")
                        ELSE Err(SerdeError("invalid JSON-RPC version")))
    /\ (value # Nothing /\ value.kind = "version" /\ serialized # Nothing) =>
            /\ serialized.v \in {JStr("1.0"), JStr("2.0")}
            /\ (serialized.v = JStr("1.0")) = (value.v = "V1_0")
            /\ parsed # Nothing => parsed.r = Ok(value.v)

C17_Witness ==
    /\ VersionParsed
    /\ serialized.kind = "text"
    /\ TextRead = "2.00"
    /\ parsed.by = "from_str"
    /\ ~parsed.r.ok
    /\ parsed.r.err = RpcError("InvalidJsonRpcVersion", "2.00")

\* An identifier has been parsed from the document j.
IdParsed == parsed # Nothing /\ serialized.kind = "id"

\* C18 as claimed: a JSON number, whichever, parses to Id::Number, a JSON
\* string to Id::String, and null, a boolean, an array and an object fail
\* with an error of the taxonomy.
C18_EveryNumberIsAnId ==
    IdParsed =>
        LET j == serialized.v
        IN  /\ j.t \in {"num", "real"} => (parsed.r.ok /\ parsed.r.val.variant = "Number")
            /\ j.t = "str" => parsed.r = Ok(String(j.v))
            /\ j.t \in {"null", "bool", "arr", "obj"} =>
                    (~parsed.r.ok /\ parsed.r.err.kind \in ErrorKinds)

\* C18: a JSON number that is an unsigned integer parses to Id::Number of
\* that integer and a JSON string to Id::String of that text; every other
\* document (a negative number, a number with a fraction, null, a boolean,
\* an array, an object) fails with the serialization failure of the
\* taxonomy.
C18_UnsignedOrStringElseFails ==
    IdParsed =>
        LET j == serialized.v
        IN  IF j.t = "num" /\ j.v >= 0 THEN parsed.r = Ok(Number(j.v))
            ELSE IF j.t = "str" THEN parsed.r = Ok(String(j.v))
            ELSE ~parsed.r.ok /\ parsed.r.err.kind = "SerdeError"

C18_Witness ==
    /\ IdParsed
    /\ serialized.v.t = "num"
    /\ serialized.v.v = -1
    /\ ~parsed.r.ok
    /\ parsed.r.err.kind = "SerdeError"

\* C19: a request whose params is still None when it is posted (made by
\* new_v1 or new_v2, no set_params and no add_param after) is written with
\* its method, version text and id and without a params key, never with
\* params null; a request whose params is Some is written with that value.
C19_AbsentParamsNotWritten ==
    cpc = "posted" =>
        /\ posted.kind = "object"
        /\ posted.method = JStr(outgoing.method)
        /\ posted.jsonrpc = (IF outgoing.jsonrpc = "V1_0" THEN JStr("1.0") ELSE JStr("2.0"))
        /\ posted.id = JNum(outgoing.id.n)
        /\ ~outgoing.params.some => (posted.params = JAbsent /\ posted.params # JNull)
        /\ outgoing.params.some => posted.params = outgoing.params.val

C19_Witness ==
    /\ cpc = "posted"
    /\ client.origin.self.shape = "vec"
    /\ client.origin.fn = "send_v1_request"
    /\ outgoing = new_v1(Number(2), "ping")
    /\ posted = Object(JStr("ping"), JStr("1.0"), JAbsent, JNum(2))

\* The call is one of the zero-argument calls: on (), on an empty Vec or
\* slice, on None, or of an rpc_method function without parameters.
ZeroArguments(c) ==
    \/ c.self.shape = "unit"
    \/ c.self.shape \in {"vec", "slice"} /\ c.self.items = <<>>
    \/ c.self.shape = "option" /\ ~c.self.inner.some
    \/ c.self.shape = "rpc_method" /\ c.self.args = <<>>

\* C20 as claimed: every zero-argument call posts a request without params.
C20_ZeroArgumentsOmitParams ==
    (cpc = "posted" /\ ZeroArguments(client.origin)) => posted.params = JAbsent

\* C20: a zero-argument call made on an empty Vec or slice posts a request
\* without params; made on (), on None or through an array-mode rpc_method
\* function without parameters it posts params [], the empty array; made
\* with an _obj function of () or through an obj-mode rpc_method function
\* without parameters it posts params {}, the empty object.
C20_ZeroArgumentsByShape ==
    (cpc = "posted" /\ ZeroArguments(client.origin)) =>
        LET o == client.origin
        IN  IF o.self.shape \in {"vec", "slice"} THEN posted.params = JAbsent
            ELSE IF \/ (o.self.shape = "unit" /\ o.fn \in {"send_v1_request_obj",
                                                            "send_v2_request_obj"})
                    \/ (o.self.shape = "rpc_method" /\ o.self.mode = "obj")
            THEN posted.params = JObj({})
            ELSE posted.params = JArr(<<>>)

C20_Witness ==
    /\ cpc = "posted"
    /\ client.origin.self.shape = "unit"
    /\ client.origin.fn = "send_v2_request"
    /\ posted.params = JArr(<<>>)
    /\ posted.jsonrpc = JStr("2.0")

\* The task has dispatched a request to a handler whose function declares no
\* parameters, and the handler's reply is there.
NoParamsHandled(t) ==
    /\ pc[t] = "done"
    /\ op[t] = "dispatch"
    /\ Routed(t)
    /\ Len(HandlerOf(t).params) = 0

\* C21: a handler without parameters, in array or in obj mode, that is given
\* a request a zero-argument client call posted (params omitted, [] or {})
\* in the handler's version calls its function; when the function succeeds
\* the reply is a success response with the function's result, the protocol
\* version of the request and the request's id, and when the function fails
\* the reply is the function's error.
C21_NoParamsHandlerTakesEveryZeroShape ==
    \A t \in tasks :
        (/\ NoParamsHandled(t)
         /\ body[t].jsonrpc = JStr(HandlerOf(t).version)
         /\ body[t].params \in {JAbsent, JArr(<<>>), JObj({})}) =>
            /\ hout[t].invoked
            /\ \E outcome \in OutcomesOf(inputs) :
                    IF outcome.ok
                    THEN ret[t] = Ok([jsonrpc |-> body[t].jsonrpc, result |-> outcome.val,
                                      error |-> JAbsent, id |-> body[t].id])
                    ELSE ret[t] = outcome

C21_Witness ==
    \E t \in tasks :
        /\ NoParamsHandled(t)
        /\ HandlerOf(t) = TodoList
        /\ client.origin.self.shape = "unit"
        /\ client.origin.fn = "send_v2_request"
        /\ body[t] = Object(JStr("todoList"), JStr("2.0"), JArr(<<>>), JNum(1))
        /\ ret[t] = Ok([jsonrpc |-> JStr("2.0"), result |-> JStr("hi"),
                        error |-> JAbsent, id |-> JNum(1)])
        /\ cpc = "returned"
        /\ answer = Ok(JsonRpcResponse("V2_0", Some(JStr("hi")), None, Number(1)))

\* The call is made in array mode: an array send function of a value, or an
\* rpc_method function in array mode.
ArrayMode(c) ==
    IF c.self.shape = "rpc_method" THEN c.self.mode = "array"
    ELSE c.fn \in {"send_v1_request", "send_v2_request"}

\* The arguments a1..ak of a call, in order: the scalar or string, what the
\* Some holds, the elements of a tuple, Vec or slice, the fields of a
\* struct, the arguments of an rpc_method function.
RECURSIVE Arguments(_)
Arguments(self) ==
    IF self.shape = "unit" THEN <<>>
    ELSE IF self.shape = "option"
    THEN (IF self.inner.some THEN Arguments(self.inner.val) ELSE <<>>)
    ELSE IF self.shape = "rpc_method" THEN [k \in 1..Len(self.args) |-> self.args[k].v]
    ELSE self.items

\* C22: an array-mode call with arguments a1..ak, k >= 1, whatever its shape,
\* posts params equal to the array [a1, ..., ak] in that order.
C22_ArrayModePostsTheArguments ==
    (/\ cpc = "posted"
     /\ ArrayMode(client.origin)
     /\ Arguments(client.origin.self) # <<>>) =>
        posted.params = JArr(Arguments(client.origin.self))

\* The items a send function has added so far: those of the value less
\* those still pending.
Added == SubSeq(client.self.items, 1, Len(client.self.items) - Len(pending))

\* C23: from a new request without params, after add_param was called with
\* v1..vk, k >= 1, params is the sequence [v1, ..., vk] in call order, and
\* jsonrpc, method and id are those of the new request.
C23_AddParamAppendsInOrder ==
    (/\ cpc \in {"add", "post"}
     /\ client.self.shape \in {"scalar", "str", "tuple", "vec", "slice", "struct"}
     /\ EffectiveFn(client.self, client.fn) \in {"send_v1_request", "send_v2_request"}) =>
        /\ outgoing.params = (IF Added = <<>> THEN None ELSE Some(JArr(Added)))
        /\ outgoing.jsonrpc = NewRequest(EffectiveFn(client.self, client.fn), outgoing.id, ClientMethod).jsonrpc
        /\ outgoing.method = ClientMethod
        /\ outgoing.id = issued[Len(issued)].id

C23_Witness ==
    /\ cpc = "post"
    /\ client.self.shape = "vec"
    /\ client.self.items = <<JNum(2), JNum(1), JNum(2)>>
    /\ outgoing.params = Some(JArr(<<JNum(2), JNum(1), JNum(2)>>))
    /\ outgoing.id = Number(1)

\* C24: a send function whose send() fails returns Err of the transport kind
\* to its caller, whatever value it is called on; it never panics and never
\* returns anything else.
C24_TransportFailureIsReturned ==
    /\ cpc # "panicked"
    /\ (cpc = "returned" /\ posted = Nothing) =>
            (~answer.ok /\ answer.err.kind = "ReqwestError")

\* dispatch() of a body whose method field parsed has returned.
DispatchReturned(t) == Dispatching(t) /\ pc[t] = "done"

\* What dispatch() returned is an error of one of the kinds.
ReturnedKind(t, kinds) == ~ret[t].ok /\ ret[t].err.kind \in kinds

\* C25 as claimed: when dispatch() has returned, an unregistered method gave
\* MethodNotFound whatever the jsonrpc text and the params, InvalidVersion
\* and InvalidParams came only from a handler that was called, and no
\* handler that was called returned MethodNotFound.
C25_NoHandlerReturnsMethodNotFound ==
    \A t \in tasks :
        DispatchReturned(t) =>
            /\ EntriesFor(MethodOf(t)) = {} => ret[t] = Err(MethodNotFound)
            /\ ReturnedKind(t, {"InvalidJsonRpcVersion", "InvalidParams"}) => Routed(t)
            /\ Routed(t) => ret[t] # Err(MethodNotFound)

\* C25: when dispatch() has returned, an unregistered method gave
\* MethodNotFound whatever the jsonrpc text and the params, InvalidVersion
\* and InvalidParams came only from a handler that was called, and a handler
\* that was called returned MethodNotFound only when it had called its
\* function (the function's own error is returned as it is).
C25_MethodNotFoundOnlyFromDispatcherOrFunction ==
    \A t \in tasks :
        DispatchReturned(t) =>
            /\ EntriesFor(MethodOf(t)) = {} => ret[t] = Err(MethodNotFound)
            /\ ReturnedKind(t, {"InvalidJsonRpcVersion", "InvalidParams"}) => Routed(t)
            /\ (Routed(t) /\ ret[t] = Err(MethodNotFound)) => hout[t].invoked

C25_Witness ==
    \E t \in tasks :
        /\ DispatchReturned(t)
        /\ services = <<RpcServiceEntry(EchoArray), RpcServiceEntry(Ping)>>
        /\ body[t] = Object(JStr("nope"), JStr("9.9"), JAbsent, JNum(1))
        /\ calls[t] = <<>>
        /\ ret[t] = Err(MethodNotFound)

\* C26: the function of a generated handler is called at most once in a
\* dispatch (the handler is called at most once, and calls its function at
\* most once), and only when the payload decoded into the handler's request
\* type, valid id included, the jsonrpc text is the handler's version and,
\* for a function with parameters, params is there; otherwise it is not
\* called.
C26_FunctionCalledOnlyAfterTheChecks ==
    \A t \in tasks :
        /\ Len(calls[t]) <= 1
        /\ (hout[t] # Nothing) => (pc[t] = "done" /\ Routed(t))
        /\ (pc[t] = "done" /\ Routed(t)) =>
              (hout[t].invoked =>
                  /\ body[t].kind = "object"
                  /\ body[t].method.t = "str"
                  /\ body[t].jsonrpc.t = "str"
                  /\ (ParamsAreAbsent(body[t]) \/ ParamsFit(HandlerOf(t), body[t]))
                  /\ IdIsWellFormed(body[t])
                  /\ body[t].jsonrpc = JStr(HandlerOf(t).version)
                  /\ (Len(HandlerOf(t).params) > 0 => ~ParamsAreAbsent(body[t])))

C26_Witness ==
    \E t \in tasks :
        /\ pc[t] = "done"
        /\ Routed(t)
        /\ HandlerOf(t) = EchoArray
        /\ body[t] = Object(JStr("echoArray"), JStr("2.0"), JArr(<<JStr("hi")>>), JNum(1))
        /\ hout[t].invoked
        /\ ret[t].ok

\* C27: while the handler of a task is suspended, every other task can take
\* its next step of dispatch(): start a dispatch, look its method up in the
\* built table and call the handler (the same one included), and have its
\* own handler return.
C27_SuspendedHandlerBlocksNobody ==
    \A t \in tasks : \A u \in tasks \ {t} :
        pc[t] = "await" =>
            /\ route.state = "Ready"
            /\ pc[u] = "idle" => ENABLED (\E b \in BodiesOf(inputs) : CallDispatch(u, b))
            /\ (pc[u] = "force" /\ op[u] = "dispatch") => ENABLED Lookup(u)
            /\ pc[u] = "await" =>
                    ENABLED (\E outcome \in OutcomesOf(inputs) : HandlerReturn(u, outcome))

\* One dispatch has completed with the reply of a handler while another
\* dispatch of the same method is suspended in that handler.
C27_Witness ==
    \E t \in tasks : \E u \in tasks \ {t} :
        /\ pc[t] = "await"
        /\ pc[u] = "done"
        /\ Routed(u)
        /\ HandlerOf(u) = calls[t][1][1]
        /\ body[u].method = body[t].method
        /\ ret[u].ok

\* C28: once the table is Poisoned it stays Poisoned; from then on no
\* handler is called, an init() or a dispatch() that reaches the table ends
\* in the panic, and the only calls that return are dispatches of bodies
\* whose method field does not parse.
C28_PoisonedForGood ==
    [][route.state = "Poisoned" =>
        /\ route' = route
        /\ \A t \in tasks :
            /\ calls'[t] = <<>>
            /\ pc'[t] # "await"
            /\ (pc[t] = "force" /\ pc'[t] # "force") => pc'[t] = "panicked"
            /\ (pc[t] # "done" /\ pc'[t] = "done") =>
                    (op'[t] = "dispatch" /\ ~MethodEnvelope(body'[t]).ok)]_vars

\* After the build panicked in an init(), a dispatch() of a well-formed
\* request has panicked too, without a second build.
C28_Witness ==
    \E t \in tasks : \E u \in tasks \ {t} :
        /\ route.state = "Poisoned"
        /\ builds = 1
        /\ op[t] = "init"
        /\ pc[t] = "panicked"
        /\ op[u] = "dispatch"
        /\ MethodEnvelope(body[u]).ok
        /\ pc[u] = "panicked"
        /\ calls[u] = <<>>

\* C29: dispatch() of a body whose method is a JSON string, written with or
\* without escape sequences, routes on the string it decodes to: to the
\* registered handler of that name, or to MethodNotFound when there is none.
C29_RoutesOnTheDecodedMethod ==
    \A t \in tasks :
        (/\ op[t] = "dispatch"
         /\ pc[t] = "done"
         /\ ~HasDuplicate
         /\ body[t].kind = "object"
         /\ body[t].method.t = "str") =>
            IF EntriesFor(body[t].method.v) # {}
            THEN Routed(t) /\ HandlerOf(t).method = body[t].method.v
            ELSE ret[t] = Err(MethodNotFound)

\* C30: an rpc_method function declared with a version text the service
\* macros take posts its request with the protocol version the service
\* macros give a handler declared with the same text.
C30_SameTextSameVersion ==
    (cpc = "posted" /\ client.origin.self.shape = "rpc_method") =>
        posted.jsonrpc = JStr(RpcAttrVersion(client.origin.self.version))

====
